---- MODULE Spec2Model ----
(***************************************************************************)
(* Key-extraction pipeline of tolgee-cli (src/extractor/runner.ts).        *)
(*                                                                         *)
(* extractKeysOfFiles globs the files, hands every file to the worker and  *)
(* awaits the whole batch with Promise.all; filterExtractionResult folds   *)
(* the file -> keys map into namespace buckets.                            *)
(*                                                                         *)
(* The pull command (commands/pull.ts): pullHandler validates the           *)
(* destination path, fetches the export as a zip and extractZip unpacks it *)
(* entry by entry.                                                         *)
(*                                                                         *)
(* Encoding of JavaScript values:                                          *)
(*   an optional string (string | undefined) is a sequence of length <= 1: *)
(*   <<>> is undefined, <<s>> is the string s (so "" is <<"">>);           *)
(*   a property key of the FilteredKeys object is <<s>> for the string s   *)
(*   and <<"Symbol", "namespace.null">> for the NullNamespace symbol;      *)
(*   a Map is a sequence of [key, value] entries in insertion order.       *)
(***************************************************************************)
EXTENDS Integers, Sequences, FiniteSets, TLC

VARIABLES
    outcome,          \* promise of extractKeysOfFiles: idle/pending/resolved/rejected
    files,            \* the files glob returned
    defaultNamespace, \* the defaultNamespace argument (optional string)
    extractor,        \* the extractor argument (optional string)
    submitted,        \* per file: the parameters callWorker was called with
    status,           \* per file: queued / running / done / failed
    workerOutput,     \* per file: the key list callWorker resolved with
    completed,        \* the files in the order their extraction completed
    result,           \* the Map `result` (file -> keys), insertion order
    returned,         \* TRUE once line 40 handed `result` to the caller
    filtered,         \* FilteredKeys of the first filterExtractionResult call
    filteredAgain,    \* FilteredKeys of a second call on the same Map
    pullPc,           \* where pullHandler is
    overwrite,        \* params.overwrite
    isTTY,            \* process.stdout.isTTY
    destAtCall,       \* what the destination path was when pull was called
    dest,             \* the destination path: its kind, and whether the
                      \* contents it had at the call are still there
    userOverwrite,    \* the answer of askBoolean: unasked / yes / no
    fetched,          \* TRUE once fetchZipBlob was called
    zipEntries,       \* the entries of the fetched archive: file / dir
    zipRead,          \* the number of entries yauzl has emitted
    zipPc,            \* where extractZip's event chain is
    zipPromise,       \* the promise of extractZip: none/pending/resolved/rejected
    writes            \* per opened file entry: writing / finished / error

extractVars ==
    <<outcome, files, defaultNamespace, extractor, submitted, status,
      workerOutput, completed, result, returned, filtered, filteredAgain>>

pullVars ==
    <<pullPc, overwrite, isTTY, destAtCall, dest, userOverwrite, fetched,
      zipEntries, zipRead, zipPc, zipPromise, writes>>

vars == <<extractVars, pullVars>>

---------------------------------------------------------------------------
(* Bounds *)

MaxFiles == 3
MaxKeys == 2
MaxEntries == 2

---------------------------------------------------------------------------
(* JavaScript values *)

Undefined == <<>>

Str(s) == <<s>>

\* !v and v || ...: undefined and the empty string are falsy
Falsy(v) == v = Undefined \/ v = Str("")

NullNamespace == <<"Symbol", "namespace.null">>

KeyNames == {"x"}

KeyNamespaces == {Undefined, Str(""), Str("null")}

KeyDefaultValues == {Undefined, Str(""), Str("A")}

DefaultNamespaces == {Undefined, Str(""), Str("app")}

\* the built-in extractor (undefined) or the path of a custom one
Extractors == {Undefined, Str("./custom.js")}

ExtractedKey ==
    [keyName : KeyNames, namespace : KeyNamespaces, defaultValue : KeyDefaultValues]

KeyLists(n) == UNION {[1..m -> ExtractedKey] : m \in 0..n}

---------------------------------------------------------------------------
(* Map and object helpers *)

MapKeys(m) == {m[i].key : i \in 1..Len(m)}

MapGet(m, k) == LET i == CHOOSE j \in 1..Len(m) : m[j].key = k IN m[i].value

\* Map.prototype.set: an existing key keeps its position, a new one is appended
MapSet(m, k, v) ==
    IF k \in MapKeys(m)
    THEN [i \in 1..Len(m) |-> IF m[i].key = k THEN [key |-> k, value |-> v] ELSE m[i]]
    ELSE Append(m, [key |-> k, value |-> v])

\* obj[k] = v on a plain object
ObjSet(o, k, v) == [x \in DOMAIN o \cup {k} |-> IF x = k THEN v ELSE o[x]]

EmptyObject == [x \in {} |-> {}]

RECURSIVE TotalKeys(_)
TotalKeys(m) == IF m = <<>> THEN 0 ELSE Len(Head(m).value) + TotalKeys(Tail(m))

---------------------------------------------------------------------------
(* runner.ts *)

\* null, the value stored for a key without default value
Null == <<>>

\* lines 31-35: a key without namespace gets the run-wide default namespace
applyDefaultNamespace(keys, dns) ==
    [i \in 1..Len(keys) |->
        IF Falsy(keys[i].namespace) /\ ~Falsy(dns)
        THEN [keys[i] EXCEPT !.namespace = dns]
        ELSE keys[i]]

\* variant: the extractor is not passed on to the worker
extractKeysFromFileBuiltin(file, ext) == [extractor |-> Undefined, file |-> file]

\* lines 13-18: the parameters extractKeysFromFile passes to callWorker
extractKeysFromFile(file, ext) == [extractor |-> ext, file |-> file]

\* line 47: key.namespace || NullNamespace
resolveNamespace(key) ==
    IF Falsy(key.namespace) THEN NullNamespace ELSE key.namespace

\* lines 47-52: one key folded into the FilteredKeys object
filterKey(res, key) ==
    LET namespace == resolveNamespace(key)
        bucket    == IF namespace \in DOMAIN res THEN res[namespace] ELSE EmptyObject
        value     == IF Falsy(key.defaultValue) THEN Null ELSE key.defaultValue
    IN  ObjSet(res, namespace, ObjSet(bucket, key.keyName, value))

\* lines 46-53: the keys of one file, in list order
RECURSIVE filterKeys(_, _)
filterKeys(res, keys) ==
    IF keys = <<>> THEN res ELSE filterKeys(filterKey(res, Head(keys)), Tail(keys))

\* lines 45-54: the files of the Map, in insertion order
RECURSIVE filterFiles(_, _)
filterFiles(res, data) ==
    IF data = <<>> THEN res
    ELSE filterFiles(filterKeys(res, Head(data).value), Tail(data))

\* variant: the keys are consumed with keys.shift() while they are folded
filterExtractionResultShifting(data) ==
    [data   |-> [i \in 1..Len(data) |-> [key |-> data[i].key, value |-> <<>>]],
     result |-> filterFiles(EmptyObject, data)]

\* filterExtractionResult(data): the Map after the call and the object returned
filterExtractionResult(data) ==
    [data |-> data, result |-> filterFiles(EmptyObject, data)]

\* variant: Promise.allSettled, a rejected file does not reject the batch
PromiseAllSettled(st, fs) ==
    IF \A f \in fs : st[f] \in {"done", "failed"} THEN "resolved" ELSE "pending"

\* variant: Promise.any, the first fulfilled file resolves the batch
PromiseAny(st, fs) ==
    IF \E f \in fs : st[f] = "done" THEN "resolved"
    ELSE IF \A f \in fs : st[f] = "failed" THEN "rejected"
    ELSE "pending"

\* variant: a join that resolves when the last file completes, and so
\* never for an empty batch
PromiseAllCounting(st, fs) ==
    IF \E f \in fs : st[f] = "failed" THEN "rejected"
    ELSE IF fs # {} /\ \A f \in fs : st[f] = "done" THEN "resolved"
    ELSE "pending"

\* Promise.all over the per-file promises of files.map
PromiseAll(st, fs) ==
    IF \E f \in fs : st[f] = "failed" THEN "rejected"
    ELSE IF \A f \in fs : st[f] = "done" THEN "resolved"
    ELSE "pending"

\* variant: a rejection cancels the extractions that have not completed
rejectFileCancelling(st, f) ==
    [g \in DOMAIN st |->
        IF g = f \/ st[g] \in {"queued", "running"} THEN "failed" ELSE st[g]]

\* line 30: the await of file f throws, the promise of its callback rejects
rejectFile(st, f) == [st EXCEPT ![f] = "failed"]

\* a settled promise stays settled
Settle(old, new) == IF old = "pending" THEN new ELSE old

---------------------------------------------------------------------------
(* worker pool behind callWorker *)

PoolSize == 2

Running(st, fs) == {f \in fs : st[f] = "running"}

\* variant: every submission starts at once
CanStartUncapped(st, fs) == TRUE

CanStart(st, fs) == Cardinality(Running(st, fs)) < PoolSize

---------------------------------------------------------------------------
(* State machine *)

Init ==
    /\ pullPc = "idle"
    /\ overwrite = FALSE
    /\ isTTY = FALSE
    /\ destAtCall = "absent"
    /\ dest = [kind |-> "absent", old |-> FALSE]
    /\ userOverwrite = "unasked"
    /\ fetched = FALSE
    /\ zipEntries = <<>>
    /\ zipRead = 0
    /\ zipPc = "none"
    /\ zipPromise = "none"
    /\ writes = [i \in {} |-> "writing"]
    /\ outcome = "idle"
    /\ files = {}
    /\ defaultNamespace = Undefined
    /\ extractor = Undefined
    /\ submitted = [f \in {} |-> <<>>]
    /\ status = [f \in {} |-> "queued"]
    /\ workerOutput = [f \in {} |-> <<>>]
    /\ completed = <<>>
    /\ result = <<>>
    /\ returned = FALSE
    /\ filtered = <<>>
    /\ filteredAgain = <<>>

\* lines 20-29: glob resolves with n files, every file is handed to callWorker
extractKeysOfFiles(n, ext, dns) ==
    /\ outcome = "idle"
    /\ files' = 1..n
    /\ extractor' = ext
    /\ defaultNamespace' = dns
    /\ submitted' = [f \in 1..n |-> extractKeysFromFile(f, ext)]
    /\ status' = [f \in 1..n |-> "queued"]
    /\ outcome' = PromiseAll(status', files')
    /\ returned' = (outcome' = "resolved")
    /\ UNCHANGED pullVars
    /\ UNCHANGED <<workerOutput, completed, result, filtered, filteredAgain>>

\* line 25: glob rejects, nothing is scheduled
globFails ==
    /\ outcome = "idle"
    /\ outcome' = "rejected"
    /\ UNCHANGED pullVars
    /\ UNCHANGED <<files, defaultNamespace, extractor, submitted, status,
                   workerOutput, completed, result, returned, filtered,
                   filteredAgain>>

\* the pool starts a queued extraction when a slot is free
workerStart(f) ==
    /\ f \in files
    /\ status[f] = "queued"
    /\ CanStart(status, files)
    /\ status' = [status EXCEPT ![f] = "running"]
    /\ UNCHANGED pullVars
    /\ UNCHANGED <<outcome, files, defaultNamespace, extractor, submitted,
                   workerOutput, completed, result, returned, filtered,
                   filteredAgain>>

\* lines 30-36: the worker resolves with keys; rewrite, result.set, then
\* Promise.all resolves at line 28 if this was the last file and line 40 returns
workerResolves(f, keys) ==
    /\ f \in files
    /\ status[f] = "running"
    /\ TotalKeys(result) + Len(keys) <= MaxKeys
    /\ workerOutput' = [x \in DOMAIN workerOutput \cup {f} |->
                           IF x = f THEN keys ELSE workerOutput[x]]
    /\ completed' = Append(completed, f)
    /\ result' = MapSet(result, f, applyDefaultNamespace(keys, defaultNamespace))
    /\ status' = [status EXCEPT ![f] = "done"]
    /\ outcome' = Settle(outcome, PromiseAll(status', files))
    /\ returned' = (outcome' = "resolved")
    /\ UNCHANGED pullVars
    /\ UNCHANGED <<files, defaultNamespace, extractor, submitted, filtered,
                   filteredAgain>>

\* line 30: the worker rejects; the file's promise and Promise.all reject
workerRejects(f) ==
    /\ f \in files
    /\ status[f] = "running"
    /\ status' = rejectFile(status, f)
    /\ outcome' = Settle(outcome, PromiseAll(status', files))
    /\ returned' = (outcome' = "resolved")
    /\ UNCHANGED pullVars
    /\ UNCHANGED <<files, defaultNamespace, extractor, submitted, workerOutput,
                   completed, result, filtered, filteredAgain>>

\* the caller aggregates the Map it was handed
filterCall ==
    /\ returned
    /\ filtered = <<>>
    /\ LET call == filterExtractionResult(result)
       IN  /\ result' = call.data
           /\ filtered' = <<call.result>>
    /\ UNCHANGED pullVars
    /\ UNCHANGED <<outcome, files, defaultNamespace, extractor, submitted,
                   status, workerOutput, completed, returned, filteredAgain>>

\* the caller aggregates the same Map once more
filterCallAgain ==
    /\ filtered # <<>>
    /\ filteredAgain = <<>>
    /\ LET call == filterExtractionResult(result)
       IN  /\ result' = call.data
           /\ filteredAgain' = <<call.result>>
    /\ UNCHANGED pullVars
    /\ UNCHANGED <<outcome, files, defaultNamespace, extractor, submitted,
                   status, workerOutput, completed, returned, filtered>>

\* the steps of a run after the call
Extraction ==
    \/ \E f \in files : workerStart(f)
    \/ \E f \in files, keys \in KeyLists(MaxKeys - TotalKeys(result)) :
           workerResolves(f, keys)
    \/ \E f \in files : workerRejects(f)
    \/ filterCall
    \/ filterCallAgain

\* runs with the built-in extractor and any default namespace
Next ==
    \/ \E n \in 0..MaxFiles, dns \in DefaultNamespaces :
           extractKeysOfFiles(n, Undefined, dns)
    \/ globFails
    \/ Extraction

Spec == Init /\ [][Next]_vars

\* runs with any extractor and no default namespace
NextExtractor ==
    \/ \E n \in 0..MaxFiles, ext \in Extractors :
           extractKeysOfFiles(n, ext, Undefined)
    \/ globFails
    \/ Extraction

SpecExtractor == Init /\ [][NextExtractor]_vars

---------------------------------------------------------------------------
(* The pull command: validatePath and pullHandler *)

DestKinds == {"absent", "file", "dir"}

\* the ways pullHandler ends with an error thrown to run()
PullErrors == {"stat-error", "rm-error", "mkdir-error", "fetch-error",
               "extract-error"}

\* variant: an existing folder is purged without asking
validatePathUnprompted(kind, ow, tty) ==
    CASE kind = "absent" -> "mkdir"
      [] kind = "file"   -> "exited"
      [] ow              -> "mkdir"
      [] OTHER           -> "rm"

\* validatePath once stat has answered: where the command goes next.
\* ENOENT is swallowed; a non-directory exits; with overwrite the whole
\* block that prompts and purges is skipped; without it a non-TTY exits
\* and a TTY asks
validatePath(kind, ow, tty) ==
    CASE kind = "absent" -> "mkdir"
      [] kind = "file"   -> "exited"
      [] ow              -> "mkdir"
      [] ~tty            -> "exited"
      [] OTHER           -> "ask"

\* the command is invoked; validatePath calls stat
pullHandler(kind, ow, tty) ==
    /\ pullPc = "idle"
    /\ pullPc' = "stat"
    /\ overwrite' = ow
    /\ isTTY' = tty
    /\ destAtCall' = kind
    /\ dest' = [kind |-> kind, old |-> (kind = "dir")]
    /\ UNCHANGED <<userOverwrite, fetched, zipEntries, zipRead, zipPc,
                   zipPromise, writes>>
    /\ UNCHANGED extractVars

\* stat answers, or fails with ENOENT
statPath ==
    /\ pullPc = "stat"
    /\ pullPc' = validatePath(dest.kind, overwrite, isTTY)
    /\ UNCHANGED <<overwrite, isTTY, destAtCall, dest, userOverwrite, fetched,
                   zipEntries, zipRead, zipPc, zipPromise, writes>>
    /\ UNCHANGED extractVars

\* stat fails with another error, which validatePath rethrows
statFails ==
    /\ pullPc = "stat"
    /\ pullPc' = "stat-error"
    /\ UNCHANGED <<overwrite, isTTY, destAtCall, dest, userOverwrite, fetched,
                   zipEntries, zipRead, zipPc, zipPromise, writes>>
    /\ UNCHANGED extractVars

\* the user answers the prompt; "no" aborts
askBoolean(answer) ==
    /\ pullPc = "ask"
    /\ userOverwrite' = IF answer THEN "yes" ELSE "no"
    /\ pullPc' = IF answer THEN "rm" ELSE "exited"
    /\ UNCHANGED <<overwrite, isTTY, destAtCall, dest, fetched, zipEntries,
                   zipRead, zipPc, zipPromise, writes>>
    /\ UNCHANGED extractVars

\* rm(path, {recursive: true}) removes the folder and all it holds
rmPath ==
    /\ pullPc = "rm"
    /\ dest' = [kind |-> "absent", old |-> FALSE]
    /\ pullPc' = "mkdir"
    /\ UNCHANGED <<overwrite, isTTY, destAtCall, userOverwrite, fetched,
                   zipEntries, zipRead, zipPc, zipPromise, writes>>
    /\ UNCHANGED extractVars

rmFails ==
    /\ pullPc = "rm"
    /\ pullPc' = "rm-error"
    /\ UNCHANGED <<overwrite, isTTY, destAtCall, dest, userOverwrite, fetched,
                   zipEntries, zipRead, zipPc, zipPromise, writes>>
    /\ UNCHANGED extractVars

\* mkdir(path, {recursive: true}): creates the folder, keeps an existing one
mkdirPath ==
    /\ pullPc = "mkdir"
    /\ dest' = [dest EXCEPT !.kind = "dir"]
    /\ pullPc' = "fetch"
    /\ UNCHANGED <<overwrite, isTTY, destAtCall, userOverwrite, fetched,
                   zipEntries, zipRead, zipPc, zipPromise, writes>>
    /\ UNCHANGED extractVars

mkdirFails ==
    /\ pullPc = "mkdir"
    /\ pullPc' = "mkdir-error"
    /\ UNCHANGED <<overwrite, isTTY, destAtCall, dest, userOverwrite, fetched,
                   zipEntries, zipRead, zipPc, zipPromise, writes>>
    /\ UNCHANGED extractVars

ZipEntryKinds == {"file", "dir"}

\* the archives the export endpoint may answer with
Archives ==
    UNION {[1..n -> ZipEntryKinds] : n \in 0..MaxEntries}

\* fetchZipBlob resolves with an archive and extractZip is called with it
fetchZipBlob(entries) ==
    /\ pullPc = "fetch"
    /\ fetched' = TRUE
    /\ zipEntries' = entries
    /\ zipRead' = 0
    /\ zipPc' = "open"
    /\ zipPromise' = "pending"
    /\ pullPc' = "extract"
    /\ UNCHANGED <<overwrite, isTTY, destAtCall, dest, userOverwrite, writes>>
    /\ UNCHANGED extractVars

\* the request fails
fetchFails ==
    /\ pullPc = "fetch"
    /\ fetched' = TRUE
    /\ pullPc' = "fetch-error"
    /\ UNCHANGED <<overwrite, isTTY, destAtCall, dest, userOverwrite,
                   zipEntries, zipRead, zipPc, zipPromise, writes>>
    /\ UNCHANGED extractVars

\* the await on extractZip returns or throws
extractSettled ==
    /\ pullPc = "extract"
    /\ zipPromise \in {"resolved", "rejected"}
    /\ pullPc' = IF zipPromise = "resolved" THEN "done" ELSE "extract-error"
    /\ UNCHANGED <<overwrite, isTTY, destAtCall, dest, userOverwrite, fetched,
                   zipEntries, zipRead, zipPc, zipPromise, writes>>
    /\ UNCHANGED extractVars

---------------------------------------------------------------------------
(* extractZip: one entry at a time, the next one is read when the read    *)
(* stream of the current one ends                                          *)

ZipFrame == UNCHANGED <<overwrite, isTTY, destAtCall, dest, userOverwrite,
                        fetched, zipEntries>>

\* zipFromBuffer hands over the zip: handlers are registered, readEntry()
zipOpen ==
    /\ zipPc = "open"
    /\ zipPc' = "readEntry"
    /\ ZipFrame
    /\ UNCHANGED <<pullPc, zipRead, zipPromise, writes>>
    /\ UNCHANGED extractVars

\* zipFromBuffer hands over an error: reject(err)
zipOpenFails ==
    /\ zipPc = "open"
    /\ zipPromise' = Settle(zipPromise, "rejected")
    /\ zipPc' = "stopped"
    /\ ZipFrame
    /\ UNCHANGED <<pullPc, zipRead, writes>>
    /\ UNCHANGED extractVars

\* 'entry': a folder entry goes to mkdir, a file entry to openReadStream
zipEntry ==
    /\ zipPc = "readEntry"
    /\ zipRead < Len(zipEntries)
    /\ zipRead' = zipRead + 1
    /\ zipPc' = IF zipEntries[zipRead'] = "dir" THEN "mkdir"
                                                ELSE "openReadStream"
    /\ ZipFrame
    /\ UNCHANGED <<pullPc, zipPromise, writes>>
    /\ UNCHANGED extractVars

\* 'error' of the zip (a damaged entry): reject
zipError ==
    /\ zipPc = "readEntry"
    /\ zipRead < Len(zipEntries)
    /\ zipPromise' = Settle(zipPromise, "rejected")
    /\ zipPc' = "stopped"
    /\ ZipFrame
    /\ UNCHANGED <<pullPc, zipRead, writes>>
    /\ UNCHANGED extractVars

\* 'end' of the zip, no entry is left: resolve()
zipEnd ==
    /\ zipPc = "readEntry"
    /\ zipRead = Len(zipEntries)
    /\ zipPromise' = Settle(zipPromise, "resolved")
    /\ zipPc' = "end"
    /\ ZipFrame
    /\ UNCHANGED <<pullPc, zipRead, writes>>
    /\ UNCHANGED extractVars

\* mkdir(entryPath) fulfils: .then(() => zip.readEntry())
entryMkdir ==
    /\ zipPc = "mkdir"
    /\ zipPc' = "readEntry"
    /\ ZipFrame
    /\ UNCHANGED <<pullPc, zipRead, zipPromise, writes>>
    /\ UNCHANGED extractVars

\* mkdir(entryPath) rejects: the chain has no catch, nothing calls
\* readEntry, resolve or reject again
entryMkdirFails ==
    /\ zipPc = "mkdir"
    /\ zipPc' = "unhandledRejection"
    /\ ZipFrame
    /\ UNCHANGED <<pullPc, zipRead, zipPromise, writes>>
    /\ UNCHANGED extractVars

\* openReadStream hands over the stream: createWriteStream, pipe
openReadStream ==
    /\ zipPc = "openReadStream"
    /\ writes' = [i \in DOMAIN writes \cup {zipRead} |->
                     IF i = zipRead THEN "writing" ELSE writes[i]]
    /\ zipPc' = "piping"
    /\ ZipFrame
    /\ UNCHANGED <<pullPc, zipRead, zipPromise>>
    /\ UNCHANGED extractVars

\* openReadStream hands over an error: reject(err)
openReadStreamFails ==
    /\ zipPc = "openReadStream"
    /\ zipPromise' = Settle(zipPromise, "rejected")
    /\ zipPc' = "stopped"
    /\ ZipFrame
    /\ UNCHANGED <<pullPc, zipRead, writes>>
    /\ UNCHANGED extractVars

\* 'end' of the read stream: zip.readEntry()
streamEnd ==
    /\ zipPc = "piping"
    /\ zipPc' = "readEntry"
    /\ ZipFrame
    /\ UNCHANGED <<pullPc, zipRead, zipPromise, writes>>
    /\ UNCHANGED extractVars

\* the entries whose read stream has ended
ReadEnded == {i \in DOMAIN writes : ~(zipPc = "piping" /\ i = zipRead)}

\* the write stream of entry i has flushed everything ('finish'); nothing
\* listens to it
writeFinish(i) ==
    /\ pullPc # "crashed"
    /\ i \in ReadEnded
    /\ writes[i] = "writing"
    /\ writes' = [writes EXCEPT ![i] = "finished"]
    /\ ZipFrame
    /\ UNCHANGED <<pullPc, zipRead, zipPc, zipPromise>>
    /\ UNCHANGED extractVars

\* the write stream of entry i emits 'error'; it has no listener, so the
\* error is thrown as an uncaught exception and the process dies
writeError(i) ==
    /\ pullPc # "crashed"
    /\ i \in DOMAIN writes
    /\ writes[i] = "writing"
    /\ writes' = [writes EXCEPT ![i] = "error"]
    /\ pullPc' = "crashed"
    /\ zipPc' = "crashed"
    /\ ZipFrame
    /\ UNCHANGED <<zipRead, zipPromise>>
    /\ UNCHANGED extractVars

\* the steps of extractZip's own chain of callbacks
extractZip ==
    \/ zipOpen
    \/ zipOpenFails
    \/ zipEntry
    \/ zipError
    \/ zipEnd
    \/ entryMkdir
    \/ entryMkdirFails
    \/ openReadStream
    \/ openReadStreamFails
    \/ streamEnd

NextPull ==
    \/ \E kind \in DestKinds, ow \in BOOLEAN, tty \in BOOLEAN :
           pullHandler(kind, ow, tty)
    \/ statPath
    \/ statFails
    \/ \E answer \in BOOLEAN : askBoolean(answer)
    \/ rmPath
    \/ rmFails
    \/ mkdirPath
    \/ mkdirFails
    \/ \E entries \in Archives : fetchZipBlob(entries)
    \/ fetchFails
    \/ extractZip
    \/ \E i \in DOMAIN writes : writeFinish(i)
    \/ \E i \in DOMAIN writes : writeError(i)
    \/ extractSettled

SpecPull == Init /\ [][NextPull]_vars

---------------------------------------------------------------------------
(* Properties *)

Failed == {f \in files : status[f] = "failed"}

Done == {f \in files : status[f] = "done"}

\* C1: once the extraction of a file has failed, extractKeysOfFiles has
\* failed: its promise is rejected, no result map was handed back and nothing
\* was aggregated, whatever the other files did and in whatever order.
C1_AllOrNothing ==
    Failed # {} =>
        /\ outcome = "rejected"
        /\ ~returned
        /\ filtered = <<>>
        /\ filteredAgain = <<>>

\* a file failed, and every other file of a batch of three completed with keys
C1_Witness ==
    /\ Cardinality(files) = 3
    /\ Cardinality(Failed) = 1
    /\ Cardinality(Done) = 2
    /\ TotalKeys(result) > 0

\* C5: at no time are more than PoolSize extractions running, also when
\* more than PoolSize files were discovered.
C5_ConcurrencyCap == Cardinality(Running(status, files)) <= PoolSize

\* more files than slots: the pool is full and a file waits
C5_Witness ==
    /\ Cardinality(files) > PoolSize
    /\ Cardinality(Running(status, files)) = PoolSize
    /\ \E f \in files : status[f] = "queued"

\* C6: the result map is handed back only after every discovered file has
\* completed and been recorded: on success it holds exactly one entry per
\* discovered file, and aggregation only runs on such a map.
C6_NoPartialResult ==
    /\ (outcome = "resolved") = returned
    /\ returned =>
        /\ \A f \in files : status[f] = "done"
        /\ MapKeys(result) = files
        /\ Len(result) = Cardinality(files)
        /\ \A f \in files :
              MapGet(result, f) = applyDefaultNamespace(workerOutput[f], defaultNamespace)
    /\ filtered # <<>> => returned
    /\ filteredAgain # <<>> => returned

\* a batch of three files was handed back and aggregated
C6_Witness ==
    /\ Cardinality(files) = 3
    /\ returned
    /\ filtered # <<>>
    /\ TotalKeys(result) > 0

C11_NoCancellation ==
    /\ [][\A f \in files :
            (status[f] # "failed" /\ status'[f] = "failed") =>
                \A g \in files \ {f} : status'[g] = status[g]]_vars
    /\ [](\A g \in files :
            /\ status[g] = "running" =>
                  ENABLED workerResolves(g, <<>>) /\ ENABLED workerRejects(g)
            /\ (status[g] = "queued" /\ CanStart(status, files)) =>
                  ENABLED workerStart(g))

\* the batch has failed while a second file is running and a third waits
C11_Witness ==
    /\ outcome = "rejected"
    /\ Cardinality(Failed) = 1
    /\ \E g \in files : status[g] = "running"
    /\ \E g \in files : status[g] = "queued"

\* C14: in one run every file was handed to the worker once, together with
\* the extractor given to the run, and that stays so for the whole run.
C14_SameExtractor ==
    /\ DOMAIN submitted = files
    /\ \A f \in files :
          submitted[f].file = f /\ submitted[f].extractor = extractor

\* a run with a custom extractor over three files, one of them completed
C14_Witness ==
    /\ extractor = Str("./custom.js")
    /\ Cardinality(files) = 3
    /\ Done # {}
    /\ \A f \in files : submitted[f].extractor = Str("./custom.js")

\* C15: when glob finds no file, extractKeysOfFiles returns an empty map,
\* and the FilteredKeys of it has no string-named bucket and at most an
\* empty null-namespace bucket.
C15_ZeroFiles ==
    /\ [][(\E ext \in Extractors, dns \in DefaultNamespaces :
              extractKeysOfFiles(0, ext, dns)) =>
            (outcome' = "resolved" /\ returned' /\ result' = <<>>)]_vars
    /\ []((files = {} /\ filtered # <<>>) =>
            /\ DOMAIN filtered[1] \subseteq {NullNamespace}
            /\ \A b \in DOMAIN filtered[1] : DOMAIN filtered[1][b] = {})

\* the empty map of a run without files was aggregated
C15_Witness ==
    /\ files = {}
    /\ outcome = "resolved"
    /\ returned
    /\ result = <<>>
    /\ filtered # <<>>

---------------------------------------------------------------------------
(* Properties of the aggregated keys, as the specification words them *)

\* the key is in the bucket
InBucket(fk, bucket, keyName) == bucket \in DOMAIN fk /\ keyName \in DOMAIN fk[bucket]

\* the pairs (bucket, keyName) of a FilteredKeys
Pairs(fk) == {<<b, k>> : b \in DOMAIN fk, k \in KeyNames} \cap
             {p \in (DOMAIN fk) \X KeyNames : p[2] \in DOMAIN fk[p[1]]}

\* effective namespace: the explicit value, else the run-wide default, else
\* the null-namespace sentinel
EffectiveNamespace(key, dns) ==
    IF key.namespace # Undefined THEN key.namespace
    ELSE IF dns # Undefined THEN dns
    ELSE NullNamespace

\* the key occurrences the workers returned: <<file, index>>
Occurrences == {o \in files \X (1..MaxKeys + 1) :
                   o[1] \in DOMAIN workerOutput /\ o[2] <= Len(workerOutput[o[1]])}

KeyAt(o) == workerOutput[o[1]][o[2]]

\* the occurrences of one (effective namespace, keyName)
OccurrencesOf(ns, keyName) ==
    {o \in Occurrences :
        KeyAt(o).keyName = keyName /\ EffectiveNamespace(KeyAt(o), defaultNamespace) = ns}

CompletedAt(f) == CHOOSE i \in 1..Len(completed) : completed[i] = f

\* o1 was folded after o2: its file completed later, or it is later in the file
FoldedAfter(o1, o2) ==
    \/ CompletedAt(o1[1]) > CompletedAt(o2[1])
    \/ o1[1] = o2[1] /\ o1[2] > o2[2]

LastOf(occs) == CHOOSE o \in occs : \A p \in occs : p = o \/ FoldedAfter(o, p)

EffectiveNamespaces == {EffectiveNamespace(KeyAt(o), defaultNamespace) : o \in Occurrences}

\* C2: keys of different files that collide on (effective namespace, keyName)
\* with different default values leave one value for that key: the default
\* value of the file whose extraction completed last.
C2_LastWriteWins ==
    filtered # <<>> =>
        \A ns \in EffectiveNamespaces, k \in KeyNames :
            LET occs == OccurrencesOf(ns, k)
            IN  (\E o1, o2 \in occs :
                    /\ o1[1] # o2[1]
                    /\ KeyAt(o1).defaultValue # KeyAt(o2).defaultValue)
                =>  /\ InBucket(filtered[1], ns, k)
                    /\ filtered[1][ns][k] = KeyAt(LastOf(occs)).defaultValue

\* C3: with a default namespace supplied, every key without explicit
\* namespace is in the bucket of the default namespace and not in the
\* null-namespace bucket, and every key with an explicit namespace is in the
\* bucket of its own namespace.
C3_DefaultNamespaceBucket ==
    (filtered # <<>> /\ defaultNamespace # Undefined) =>
        \A o \in Occurrences :
            IF KeyAt(o).namespace = Undefined
            THEN /\ InBucket(filtered[1], defaultNamespace, KeyAt(o).keyName)
                 /\ ~InBucket(filtered[1], NullNamespace, KeyAt(o).keyName)
            ELSE InBucket(filtered[1], KeyAt(o).namespace, KeyAt(o).keyName)

\* C4: without default namespace a key without explicit namespace is in the
\* null-namespace bucket, and a key whose explicit namespace is "" or "null"
\* is in the bucket of that string and not in the null-namespace bucket.
C4_NullBucketDistinct ==
    (filtered # <<>> /\ defaultNamespace = Undefined) =>
        \A o \in Occurrences :
            IF KeyAt(o).namespace = Undefined
            THEN InBucket(filtered[1], NullNamespace, KeyAt(o).keyName)
            ELSE /\ InBucket(filtered[1], KeyAt(o).namespace, KeyAt(o).keyName)
                 /\ (\A p \in Occurrences :
                        KeyAt(p).keyName = KeyAt(o).keyName => KeyAt(p).namespace # Undefined)
                    => ~InBucket(filtered[1], NullNamespace, KeyAt(o).keyName)

\* the keys of the map in the order filterExtractionResult folds them
RECURSIVE Flatten(_)
Flatten(data) == IF data = <<>> THEN <<>> ELSE Head(data).value \o Flatten(Tail(data))

\* the occurrence that wrote the entry: the last one folded into it
WinnerOf(data, bucket, keyName) ==
    LET keys == Flatten(data)
        hits == {i \in 1..Len(keys) :
                    keys[i].keyName = keyName /\ resolveNamespace(keys[i]) = bucket}
    IN  keys[CHOOSE i \in hits : \A j \in hits : j <= i]

\* C7: every entry of the FilteredKeys holds the defaultValue of the
\* occurrence that won it: absent exactly when that occurrence has none, and
\* a present one, the empty string included, as that string.
C7_StoredValue ==
    filtered # <<>> =>
        \A p \in Pairs(filtered[1]) :
            filtered[1][p[1]][p[2]] = WinnerOf(result, p[1], p[2]).defaultValue

\* C8: the (bucket, keyName) pairs of the FilteredKeys are the (effective
\* namespace, keyName) pairs of the keys of the input map.
C8_ExactlyOneBucket ==
    filtered # <<>> =>
        Pairs(filtered[1]) =
            {<<EffectiveNamespace(key, Undefined), key.keyName>> :
                key \in {Flatten(result)[i] : i \in 1..Len(Flatten(result))}}

\* C9: when every occurrence of an (effective namespace, keyName) in two or
\* more files carries the same defaultValue, the FilteredKeys holds that
\* value for the key, in every completion order.
C9_OrderIndependent ==
    filtered # <<>> =>
        \A ns \in EffectiveNamespaces, k \in KeyNames :
            LET occs == OccurrencesOf(ns, k)
            IN  (/\ \E o1, o2 \in occs : o1[1] # o2[1]
                 /\ \A o1, o2 \in occs : KeyAt(o1).defaultValue = KeyAt(o2).defaultValue)
                =>  /\ InBucket(filtered[1], ns, k)
                    /\ \A o \in occs : filtered[1][ns][k] = KeyAt(o).defaultValue

---------------------------------------------------------------------------
(* Extent of the divergence of C2, C3, C4, C7, C8 and C9 *)

\* no namespace, default namespace or default value is the empty string
NoEmptyString ==
    /\ defaultNamespace # Str("")
    /\ \A o \in Occurrences :
          KeyAt(o).namespace # Str("") /\ KeyAt(o).defaultValue # Str("")

\* the six statements hold of every run in which no empty string occurs: the
\* falsy tests of lines 32, 47 and 52 are all that separates them from the code
HoldWithoutEmptyString ==
    NoEmptyString =>
        /\ C2_LastWriteWins
        /\ C3_DefaultNamespaceBucket
        /\ C4_NullBucketDistinct
        /\ C7_StoredValue
        /\ C8_ExactlyOneBucket
        /\ C9_OrderIndependent

\* C16: the FilteredKeys that filterExtractionResult returns always has the
\* null-namespace bucket, also when no key resolves to the null namespace.
C16_NullBucketPresent ==
    filtered # <<>> => NullNamespace \in DOMAIN filtered[1]

\* C19: the default-namespace rewrite keeps the length and order of every
\* file's key list, the keyName and defaultValue of every key, and every
\* field of a key that has an explicit namespace; a key without one has its
\* namespace left alone or set to the default namespace.
C19_RewriteFrame ==
    \A f \in MapKeys(result) :
        LET before == workerOutput[f]
            after  == MapGet(result, f)
        IN  /\ Len(after) = Len(before)
            /\ \A i \in 1..Len(before) :
                  /\ after[i].keyName = before[i].keyName
                  /\ after[i].defaultValue = before[i].defaultValue
                  /\ before[i].namespace # Undefined => after[i] = before[i]
                  /\ after[i].namespace \in {before[i].namespace, defaultNamespace}

\* C19 holds of every run in which no empty string occurs
RewriteFrameWithoutEmptyString == NoEmptyString => C19_RewriteFrame

---------------------------------------------------------------------------
(* Properties of the pull command *)

\* what was at the destination when pull was called is gone
Deleted ==
    /\ destAtCall # "absent"
    /\ dest # [kind |-> destAtCall, old |-> (destAtCall = "dir")]

\* askBoolean was called
Prompted == pullPc = "ask" \/ userOverwrite # "unasked"

\* stat has told validatePath what the path is
StatAnswered == pullPc \notin {"idle", "stat", "stat-error"}

\* C12: with overwrite set and the destination an existing directory, all
\* that the directory held is removed before the fetched files are extracted
C12_OverwritePurges ==
    (overwrite /\ destAtCall = "dir" /\ zipPromise # "none") => ~dest.old

\* without overwrite, in a non-interactive terminal: an error, nothing
\* deleted, nothing fetched or extracted
NonTTYFails ==
    /\ ~Deleted
    /\ ~fetched
    /\ zipPromise = "none"
    /\ StatAnswered => pullPc = "exited"

\* without overwrite, in an interactive terminal: the user is asked, the
\* destination is deleted only on "yes", and "no" aborts with nothing deleted
TTYPrompts ==
    /\ StatAnswered => Prompted
    /\ Deleted => userOverwrite = "yes"
    /\ userOverwrite = "no" => pullPc = "exited" /\ ~Deleted /\ ~fetched

\* an existing path that is no directory: an error, no prompt, nothing
\* deleted, nothing fetched or extracted
NotADirectoryFails ==
    /\ ~Prompted
    /\ ~Deleted
    /\ ~fetched
    /\ zipPromise = "none"
    /\ StatAnswered => pullPc = "exited"

\* C13 as stated: the destination exists and overwrite is not given; a
\* non-interactive terminal fails, an interactive one prompts; no run deletes
\* the destination without the confirmation
C13_ExistingPathPrompts ==
    /\ (pullPc # "idle" /\ destAtCall # "absent" /\ ~overwrite) =>
           IF isTTY THEN TTYPrompts ELSE NonTTYFails
    /\ Deleted => userOverwrite = "yes"

\* C13 amended: the same for a destination that exists as a directory; one
\* that exists and is no directory fails in either terminal without a prompt
C13_ExistingDirectoryPrompts ==
    /\ (pullPc # "idle" /\ destAtCall = "dir" /\ ~overwrite) =>
           IF isTTY THEN TTYPrompts ELSE NonTTYFails
    /\ (pullPc # "idle" /\ destAtCall = "file" /\ ~overwrite) =>
           NotADirectoryFails
    /\ Deleted => userOverwrite = "yes"

\* the user confirmed in an interactive terminal and the folder was purged
C13_Witness ==
    /\ destAtCall = "dir"
    /\ ~overwrite
    /\ isTTY
    /\ userOverwrite = "yes"
    /\ Deleted
    /\ pullPc = "done"

\* the file entries of the archive
FileEntries == {i \in 1..Len(zipEntries) : zipEntries[i] = "file"}

\* C17: the promise of extractZip resolves only after every entry of the
\* archive has been fully written to the destination
C17_ResolvesAfterWrites ==
    zipPromise = "resolved" =>
        \A i \in FileEntries : i \in DOMAIN writes /\ writes[i] = "finished"

\* C18: the promise of extractZip eventually settles, also when an entry's
\* stream cannot be opened, a directory cannot be created or a write fails;
\* as a safety property: while it is pending, its chain has a next step
C18_EventuallySettles ==
    zipPromise = "pending" => ENABLED extractZip

\* the failure the code does handle: openReadStream's error rejects
OpenReadStreamFailureRejects ==
    [][openReadStreamFails => zipPromise' = "rejected"]_vars

===========================================================================
